---- MODULE Spec2Model ----
(***************************************************************************)
(* A model of the two utilities of the repository:                         *)
(*   goli/features/graphormer.py : compute_graphormer_distances, the       *)
(*       all-pairs hop distance of a graph, memoised in a caller's dict;   *)
(*   goli/ipu/ipu_metrics.py     : the losses and metrics that treat a NaN *)
(*       target as a missing label without changing a tensor's shape.      *)
(*                                                                         *)
(* numpy arrays and torch tensors are objects: a name holds a reference.   *)
(* Arrays of the distance engine live in `heap` and are named by their     *)
(* index, so that two names for one array can be told from two arrays of   *)
(* equal value.                                                            *)
(***************************************************************************)
EXTENDS Integers, Sequences, FiniteSets, TLC

\* ------------------------------------------------------------------------
\* Bounds of the model
\* ------------------------------------------------------------------------
MaxNodes == 4       \* graphs have 1..MaxNodes nodes
MaxCalls == 3       \* sequential calls sharing one cache
MaxWrites == 1      \* writes of the caller into a returned matrix

VARIABLES
    edges,          \* the graph of the caller: its set of undirected edges
    adj,            \* its adjacency matrix, dense or sparse, handed to every call
    num_nodes,      \* its dimension
    heap,           \* the arrays allocated so far, named by their index
    cache,          \* the caller's dict: key -> reference into heap
    ret,            \* sequential caller: the reference the last call returned
    outcome,        \* sequential caller: "none", "ok" or "KeyError"
    computed,       \* how often the shortest-path computation has run
    ncalls,         \* sequential calls made
    nwrites,        \* writes of the caller into a returned matrix
    pc,             \* racing callers: the line each one is at
    dist,           \* racing callers: the local variable dist of each one
    preds,          \* the caller's prediction tensor
    target,         \* the caller's target tensor; an entry may be NaN
    sample_weights, \* the caller's sample_weights tensor, or None
    cfg_weight,     \* the weight tensor the caller built the BCELossIPU with, or None
    self_weight,    \* the attribute self.weight of the BCELossIPU module
    op,             \* the operation called last ("none" after the caller edits a tensor)
    result,         \* what that call returned, or that it raised
    used,           \* the arguments that call passed to the underlying statistic
    raised          \* some BCELossIPU.forward call has raised

gvars == <<edges, adj, num_nodes, heap, cache, ret, outcome, computed, ncalls, nwrites, pc, dist>>
mvars == <<preds, target, sample_weights, cfg_weight, self_weight, op, result, used, raised>>
vars == <<gvars, mvars>>

\* ------------------------------------------------------------------------
\* goli/features/graphormer.py
\* ------------------------------------------------------------------------
Nodes(n) == 0 .. (n - 1)

\* The unordered pairs of distinct nodes: the possible edges of a graph.
Pairs(n) == {e \in SUBSET Nodes(n) : Cardinality(e) = 2}

\* An adjacency matrix is a numpy array (dense) or a scipy sparse matrix; the
\* field `sparse` stands for the type of the object.
\* The dense symmetric 0/1 adjacency matrix of the edge set E.
AdjOf(n, E) ==
    [sparse |-> FALSE, shape |-> n,
     data |-> [i \in Nodes(n) |-> [j \in Nodes(n) |-> IF {i, j} \in E THEN 1 ELSE 0]]]

\* The same matrix in a sparse (coordinate) encoding: its non-zero entries.
SparseOf(n, E) ==
    [sparse |-> TRUE, shape |-> n,
     data |-> {q \in Nodes(n) \X Nodes(n) : {q[1], q[2]} \in E /\ q[1] # q[2]}]

\* The 4-node cycle 0-1, 1-2, 2-3, 3-0.
Cycle4 == {{0, 1}, {1, 2}, {2, 3}, {3, 0}}

\* scipy.sparse.issparse(adj)
issparse(a) == a.sparse

\* adj.toarray(): the dense matrix of a sparse one.
toarray(a) ==
    [sparse |-> FALSE, shape |-> a.shape,
     data |-> [i \in Nodes(a.shape) |->
                 [j \in Nodes(a.shape) |-> IF <<i, j>> \in a.data THEN 1 ELSE 0]]]

\* if issparse(adj): adj = adj.toarray()
Densified(a) == IF issparse(a) THEN toarray(a) ELSE a

\* nx.from_numpy_array(adj): an undirected graph on the nodes 0..dim-1 with
\* an edge wherever the matrix is non-zero.
FromNumpyArray(a) ==
    [nodes |-> Nodes(a.shape),
     edges |-> {{q[1], q[2]} : q \in {q \in Nodes(a.shape) \X Nodes(a.shape) : a.data[q[1]][q[2]] # 0}}]

Neighbours(G, i) == {j \in G.nodes : {i, j} \in G.edges}

\* Breadth-first search from one source: the set of <<node, number of nodes
\* on the path found to it>>, for the nodes the source reaches.  The path to
\* a node found at level l has l + 1 nodes.
RECURSIVE BFS(_, _, _, _, _)
BFS(G, seen, frontier, level, acc) ==
    IF frontier = {} THEN acc
    ELSE LET next == (UNION {Neighbours(G, i) : i \in frontier}) \ seen
         IN  BFS(G, seen \cup next, next, level + 1,
                 acc \cup {<<j, level + 2>> : j \in next})

\* nx.all_pairs_shortest_path(G): for every node, one shortest path to every
\* node it reaches; kept here as the length (in nodes) of each path.
AllPairsShortestPath(G) ==
    [i \in G.nodes |->
        LET found == BFS(G, {i}, {i}, 0, {<<i, 1>>})
        IN  [j \in {p[1] : p \in found} |-> (CHOOSE p \in found : p[1] = j)[2]]]

HopCountOffByOne(pathLen) == pathLen

\* len(path) - 1
HopCount(pathLen) == pathLen - 1

\* dist_dict = {i: {j: len(path)-1 ...}}
DistDict(paths) ==
    [i \in DOMAIN paths |-> [j \in DOMAIN paths[i] |-> HopCount(paths[i][j])]]

\* dist_dict[i][j] for i, j in range(num_nodes) raises KeyError when a key is
\* missing: it succeeds exactly when every lookup finds its key.
LookupsSucceed(dd, n) ==
    \A i \in Nodes(n) : i \in DOMAIN dd /\ \A j \in Nodes(n) : j \in DOMAIN dd[i]

\* np.asarray([[dist_dict[i][j] for j in range(num_nodes)] for i in range(num_nodes)])
Assemble(dd, n) == [i \in Nodes(n) |-> [j \in Nodes(n) |-> dd[i][j]]]

CacheHitNever(c) == FALSE

\* 'graphormer' in cache.keys()
CacheHit(c) == "graphormer" \in DOMAIN c

CachedRefTypo(c) == 0

\* cache['graphormer']
CachedRef(c) == c["graphormer"]

StoreBeforeAssemble(c, ok, r) == "graphormer" :> r

\* cache['graphormer'] = dist is reached only when the assembly did not raise.
CacheAfterMiss(c, ok, r) == IF ok THEN "graphormer" :> r ELSE c

\* The value of the array a reference names (<<>> for a reference to none).
ValueOf(r) == IF r \in 1 .. Len(heap) THEN heap[r] ELSE <<>>

\* ------------------------------------------------------------------------
\* goli/ipu/ipu_metrics.py
\*
\* A tensor is a sequence of entries.  An entry of a prediction or target
\* tensor is NaN or a fixed-point number counted in halves (Half is 0.5, One
\* is 1.0); an entry of a weight tensor is a plain number.  An optional
\* tensor is <<>> (None) or <<t>> (the tensor t).
\* ------------------------------------------------------------------------
MaxLen == 3         \* the losses are called on tensors of 1..MaxLen entries
MaxBatch == 2       \* the metrics are called on tensors of 1..MaxBatch entries

Half == 1
One == 2

NaN == [nan |-> TRUE, v |-> 0]
Num(x) == [nan |-> FALSE, v |-> x]

None == <<>>
Some(t) == <<t>>

PredVals == {Num(0), Num(Half)}
TargetVals == {Num(0), Num(One), NaN}
WeightVals == {1, 2}

\* Tensor.isnan()
isnan(t) == [i \in DOMAIN t |-> t[i].nan]

\* nan_targets.numel()
numel(mask) == Len(mask)

\* (~nan_targets).sum()
CountObserved(mask) == Cardinality({i \in DOMAIN mask : ~mask[i]})

\* t[mask] = x on a clone of t: the caller's tensor is not touched.
MaskedFill(t, mask, x) == [i \in DOMAIN t |-> IF mask[i] THEN x ELSE t[i]]

\* Indexing a tensor with a boolean mask raises IndexError unless the two
\* have one shape.
MaskFits(t, mask) == Len(t) = Len(mask)

RECURSIVE SumSeq(_)
SumSeq(s) == IF s = <<>> THEN 0 ELSE Head(s) + SumSeq(Tail(s))

AnyNaN(t) == \E i \in DOMAIN t : t[i].nan

\* A loss value: a rational num/den, NaN or infinity; or the call raised.
Rat(a, b) == [kind |-> "num", num |-> a, den |-> b]
NaNValue == [kind |-> "nan", num |-> 0, den |-> 1]
InfValue == [kind |-> "inf", num |-> 0, den |-> 1]
Raised == [kind |-> "raise", num |-> 0, den |-> 1]
Score == [kind |-> "score", num |-> 0, den |-> 1]
NoResult == [kind |-> "none", num |-> 0, den |-> 1]

\* Two loss values are the same number.
SameValue(a, b) ==
    /\ a.kind = b.kind
    /\ a.kind = "num" => a.num * b.den = b.num * a.den

\* torch.nn.MSELoss.forward with the default reduction 'mean', on tensors of
\* one shape: the mean of the squared differences (counted in quarters).
MSELoss(input, tgt) ==
    IF AnyNaN(input) \/ AnyNaN(tgt) THEN NaNValue
    ELSE Rat(SumSeq([i \in DOMAIN tgt |-> (input[i].v - tgt[i].v) * (input[i].v - tgt[i].v)]),
             Len(tgt))

Abs(x) == IF x < 0 THEN -x ELSE x

\* torch.nn.L1Loss.forward with the default reduction 'mean': the mean of
\* the absolute differences (counted in halves).
L1Loss(input, tgt) ==
    IF AnyNaN(input) \/ AnyNaN(tgt) THEN NaNValue
    ELSE Rat(SumSeq([i \in DOMAIN tgt |-> Abs(input[i].v - tgt[i].v)]), Len(tgt))

\* -log(x) in thousandths, for x counted in halves; torch clamps log at -100.
NegLog(x) == CASE x = 0 -> 100000 [] x = Half -> 693 [] x = One -> 0

\* torch.nn.BCELoss.forward with the default reduction 'mean': it raises
\* ValueError unless input and target have one size; else it is the mean of
\* weight * -(t*log(x) + (1-t)*log(1-x)).
BCELoss(input, tgt, weight) ==
    IF Len(input) # Len(tgt) THEN Raised
    ELSE IF AnyNaN(input) \/ AnyNaN(tgt) THEN NaNValue
    ELSE Rat(SumSeq([i \in DOMAIN tgt |->
                weight[i] * (tgt[i].v * NegLog(input[i].v)
                             + (One - tgt[i].v) * NegLog(One - input[i].v))]),
             Len(tgt))

RescaleClamped(loss, total, observed) ==
    IF loss.kind # "num" THEN loss
    ELSE Rat(loss.num * total, loss.den * (IF observed = 0 THEN 1 ELSE observed))

\* loss * nan_targets.numel() / ((~nan_targets).sum()): a float divided by
\* zero is NaN when it is zero and infinite otherwise.
Rescale(loss, total, observed) ==
    IF loss.kind # "num" THEN loss
    ELSE IF observed = 0
         THEN (IF loss.num * total = 0 THEN NaNValue ELSE InfValue)
         ELSE Rat(loss.num * total, loss.den * observed)

\* weight.expand(new_size).clone(), new_size the broadcast of the target's
\* size and the weight's.
Expand(w, size) == IF Len(w) = size THEN w ELSE [i \in 1 .. size |-> w[1]]

\* torch.ones(shape)
Ones(size) == [i \in 1 .. size |-> 1]

\* input < 0.5, broadcast to the target's shape
Below(input, size) == [i \in 1 .. size |-> Expand(input, size)[i].v < Half]

\* target[nan_targets_0] = 0.0; target[nan_targets_1] = 1.0: a NaN target
\* becomes the label nearest to the prediction.
NearestLabel(input, tgt) ==
    [i \in DOMAIN tgt |->
        IF tgt[i].nan /\ Below(input, Len(tgt))[i] THEN Num(0)
        ELSE IF tgt[i].nan /\ ~Below(input, Len(tgt))[i] THEN Num(One)
        ELSE tgt[i]]

KeepWeight(w, mask) == w

\* weight[nan_targets] = 0.0 / sample_weights[nan_targets] = 0.0
ZeroWeight(w, mask) == MaskedFill(w, mask, 0)

KeepInput(input, mask) == input

\* input[nan_targets] = 0.0 / preds[nan_targets] = 0.0
ZeroInput(input, mask) == MaskedFill(input, mask, Num(0))

\* target[nan_targets] = 0.0
ZeroTarget(tgt, mask) == MaskedFill(tgt, mask, Num(0))

KeepSwappedWeight(prev_weight, weight) == Some(weight)

\* self.weight = prev_weight
RestoredWeight(prev_weight, weight) == prev_weight

\* target.to(int): the fraction of every entry is dropped.
ToInt(t) == [i \in DOMAIN t |-> Num(t[i].v - (t[i].v % One))]

\* What a call hands to the statistic it wraps.
Args(p, t, w) == <<[preds |-> p, target |-> t, weight |-> w]>>
NoCall == <<>>

\* A local name is bound to a tensor object: the caller's own (the argument
\* as passed) or a fresh one.  A write through the name changes the object
\* it is bound to.
Arg(t) == [fresh |-> FALSE, val |-> t]
Fresh(t) == [fresh |-> TRUE, val |-> t]

\* Tensor.clone()
Clone(x) == Fresh(x.val)

\* x[mask] = v
SetItem(x, mask, v) == [x EXCEPT !.val = MaskedFill(x.val, mask, v)]

\* The caller's tensor after the call: changed if and only if a name still
\* bound to it was written through.
CallerSees(orig, x) == IF x.fresh THEN orig ELSE x.val

\* BCELossIPU.forward(input, target) with self.weight = sw: the loss it
\* returns (or that it raises), self.weight as it leaves it, what it passes
\* to BCELoss.forward, and the caller's tensors after the call.
BCELossIPU_forward(input, tgt, sw) ==
    LET target0 == Clone(Arg(tgt))
        prev_weight == IF sw # None THEN Some(sw[1]) ELSE None
        weight0 == IF sw # None THEN Fresh(Expand(sw[1], Len(tgt))) ELSE Fresh(Ones(Len(tgt)))
        nan_targets == isnan(target0.val)
        target1 == [target0 EXCEPT !.val = NearestLabel(input, target0.val)]
        weight == [weight0 EXCEPT !.val = ZeroWeight(weight0.val, nan_targets)]
        loss == BCELoss(input, target1.val, weight.val)
    IN  [result |-> IF loss.kind = "raise" THEN Raised
                    ELSE Rescale(loss, numel(nan_targets), CountObserved(nan_targets)),
         self_weight |-> IF loss.kind = "raise" THEN Some(weight.val)
                         ELSE RestoredWeight(prev_weight, weight.val),
         used |-> Args(input, target1.val, Some(weight.val)),
         preds |-> input,
         target |-> CallerSees(tgt, target1)]

\* MSELossIPU.forward(input, target)
MSELossIPU_forward(input, tgt) ==
    LET target0 == Clone(Arg(tgt))
        input0 == Clone(Arg(input))
        nan_targets == isnan(target0.val)
    IN  IF ~MaskFits(input0.val, nan_targets)
        THEN [result |-> Raised, used |-> NoCall, preds |-> input, target |-> tgt]
        ELSE LET input1 == [input0 EXCEPT !.val = ZeroInput(input0.val, nan_targets)]
                 target1 == [target0 EXCEPT !.val = ZeroTarget(target0.val, nan_targets)]
             IN  [result |-> Rescale(MSELoss(input1.val, target1.val),
                                     numel(nan_targets), CountObserved(nan_targets)),
                  used |-> Args(input1.val, target1.val, None),
                  preds |-> CallerSees(input, input1),
                  target |-> CallerSees(tgt, target1)]

\* L1LossIPU.forward(input, target)
L1LossIPU_forward(input, tgt) ==
    LET target0 == Clone(Arg(tgt))
        input0 == Clone(Arg(input))
        nan_targets == isnan(target0.val)
    IN  IF ~MaskFits(input0.val, nan_targets)
        THEN [result |-> Raised, used |-> NoCall, preds |-> input, target |-> tgt]
        ELSE LET input1 == [input0 EXCEPT !.val = ZeroInput(input0.val, nan_targets)]
                 target1 == [target0 EXCEPT !.val = ZeroTarget(target0.val, nan_targets)]
             IN  [result |-> Rescale(L1Loss(input1.val, target1.val),
                                     numel(nan_targets), CountObserved(nan_targets)),
                  used |-> Args(input1.val, target1.val, None),
                  preds |-> CallerSees(input, input1),
                  target |-> CallerSees(tgt, target1)]

\* auroc_ipu and average_precision_ipu (one body but for the statistic
\* called), up to the call of the torchmetrics statistic.  The name
\* sample_weights is bound to the caller's tensor when one was passed and to
\* a fresh torch.ones otherwise; sample_weights[nan_targets] = 0.0 writes
\* through it.
RankingMetricIPU(p, tgt, sw) ==
    LET target0 == Clone(Arg(tgt))
        preds0 == Clone(Arg(p))
        nan_targets == isnan(target0.val)
    IN  IF ~MaskFits(preds0.val, nan_targets)
        THEN [result |-> Raised, used |-> NoCall, preds |-> p, target |-> tgt,
              sample_weights |-> sw]
        ELSE LET preds1 == [preds0 EXCEPT !.val = ZeroInput(preds0.val, nan_targets)]
                 target1 == [target0 EXCEPT !.val = ZeroTarget(target0.val, nan_targets)]
                 weights0 == IF sw = None THEN Fresh(Ones(Len(tgt))) ELSE Arg(sw[1])
                 weights1 == [weights0 EXCEPT !.val = ZeroWeight(weights0.val, nan_targets)]
             IN  [result |-> Score,
                  used |-> Args(preds1.val, ToInt(target1.val), Some(weights1.val)),
                  preds |-> CallerSees(p, preds1),
                  target |-> CallerSees(tgt, target1),
                  sample_weights |-> IF sw = None THEN None
                                     ELSE Some(CallerSees(sw[1], weights1))]

\* precision_ipu, accuracy_ipu and recall_ipu (one body but for the
\* statistic called), up to the call of the torchmetrics statistic:
\* target[nans] = 1; preds[nans] = 0.
ClassMetricIPU(p, tgt) ==
    LET target0 == Clone(Arg(tgt))
        preds0 == Clone(Arg(p))
        nans == isnan(target0.val)
    IN  IF ~MaskFits(preds0.val, nans)
        THEN [result |-> Raised, used |-> NoCall, preds |-> p, target |-> tgt]
        ELSE LET target1 == SetItem(target0, nans, Num(One))
                 preds1 == SetItem(preds0, nans, Num(0))
             IN  [result |-> Score,
                  used |-> Args(preds1.val, ToInt(target1.val), None),
                  preds |-> CallerSees(p, preds1),
                  target |-> CallerSees(tgt, target1)]

\* The tensors of n entries over a set of values.
Tensors(n, Vals) == [1 .. n -> Vals]

IdleMetrics ==
    /\ preds = <<Num(0)>>
    /\ target = <<Num(0)>>
    /\ sample_weights = None
    /\ cfg_weight = None
    /\ self_weight = None
    /\ op = "none"
    /\ result = NoResult
    /\ used = NoCall
    /\ raised = FALSE

InitGraph ==
    /\ num_nodes \in 1 .. MaxNodes
    /\ edges \in SUBSET Pairs(num_nodes)
    /\ adj \in {AdjOf(num_nodes, edges), SparseOf(num_nodes, edges)}
    /\ heap = <<>>
    /\ cache = <<>>
    /\ ret = 0
    /\ outcome = "none"
    /\ computed = 0
    /\ ncalls = 0
    /\ nwrites = 0
    /\ pc = <<"idle", "idle">>
    /\ dist = <<0, 0>>

\* One whole call of compute_graphormer_distances(adj, num_nodes, cache) by a
\* sequential caller.
compute_graphormer_distances ==
    /\ ncalls < MaxCalls
    /\ ncalls' = ncalls + 1
    /\ IF CacheHit(cache)
       THEN /\ ret' = CachedRef(cache)
            /\ outcome' = "ok"
            /\ UNCHANGED <<heap, cache, computed>>
       ELSE LET dd == DistDict(AllPairsShortestPath(FromNumpyArray(Densified(adj))))
                ok == LookupsSucceed(dd, num_nodes)
                r  == Len(heap) + 1
            IN  /\ computed' = computed + 1
                /\ heap' = IF ok THEN Append(heap, Assemble(dd, num_nodes)) ELSE heap
                /\ cache' = CacheAfterMiss(cache, ok, r)
                /\ ret' = IF ok THEN r ELSE 0
                /\ outcome' = IF ok THEN "ok" ELSE "KeyError"
    /\ UNCHANGED <<edges, adj, num_nodes, nwrites, pc, dist, mvars>>

\* The caller of a call that returned writes one entry of the array it was
\* handed (numpy arrays are mutable).
CallerWrites ==
    /\ outcome = "ok"
    /\ ret \in 1 .. Len(heap)
    /\ nwrites < MaxWrites
    /\ \E i \in Nodes(num_nodes), j \in Nodes(num_nodes) :
          heap' = [heap EXCEPT ![ret][i][j] = -1]
    /\ nwrites' = nwrites + 1
    /\ UNCHANGED <<edges, adj, num_nodes, cache, ret, outcome, computed, ncalls, pc, dist, mvars>>

Next == compute_graphormer_distances \/ CallerWrites

Init == InitGraph /\ IdleMetrics

Spec == Init /\ [][Next]_vars

\* ------------------------------------------------------------------------
\* Two callers racing on one cache.  Each runs the function a line at a
\* time; the steps of the two interleave freely.
\* ------------------------------------------------------------------------
Callers == {1, 2}

\* line 29: if 'graphormer' in cache.keys()
RaceCheck(p) ==
    /\ pc[p] = "idle"
    /\ pc' = [pc EXCEPT ![p] = IF CacheHit(cache) THEN "hit" ELSE "miss"]
    /\ UNCHANGED <<edges, adj, num_nodes, heap, cache, ret, outcome, computed, ncalls, nwrites, dist, mvars>>

\* line 30: dist = cache['graphormer'], then line 43: return dist
RaceLoad(p) ==
    /\ pc[p] = "hit"
    /\ dist' = [dist EXCEPT ![p] = CachedRef(cache)]
    /\ pc' = [pc EXCEPT ![p] = "done"]
    /\ UNCHANGED <<edges, adj, num_nodes, heap, cache, ret, outcome, computed, ncalls, nwrites, mvars>>

\* lines 33-40: the computation, on local variables only; the KeyError of an
\* unreachable pair ends the call.
RaceCompute(p) ==
    /\ pc[p] = "miss"
    /\ LET dd == DistDict(AllPairsShortestPath(FromNumpyArray(Densified(adj))))
           ok == LookupsSucceed(dd, num_nodes)
       IN  /\ computed' = computed + 1
           /\ heap' = IF ok THEN Append(heap, Assemble(dd, num_nodes)) ELSE heap
           /\ dist' = [dist EXCEPT ![p] = IF ok THEN Len(heap) + 1 ELSE 0]
           /\ pc' = [pc EXCEPT ![p] = IF ok THEN "store" ELSE "raised"]
    /\ UNCHANGED <<edges, adj, num_nodes, cache, ret, outcome, ncalls, nwrites, mvars>>

\* line 41: cache['graphormer'] = dist, then line 43: return dist
RaceStore(p) ==
    /\ pc[p] = "store"
    /\ cache' = CacheAfterMiss(cache, TRUE, dist[p])
    /\ pc' = [pc EXCEPT ![p] = "done"]
    /\ UNCHANGED <<edges, adj, num_nodes, heap, ret, outcome, computed, ncalls, nwrites, dist, mvars>>

NextRace == \E p \in Callers : RaceCheck(p) \/ RaceLoad(p) \/ RaceCompute(p) \/ RaceStore(p)

SpecRace == Init /\ [][NextRace]_vars

\* ------------------------------------------------------------------------
\* The losses and metrics, called by a training loop on its tensors
\* ------------------------------------------------------------------------
IdleGraph ==
    /\ num_nodes = 1
    /\ edges = {}
    /\ adj = AdjOf(1, {})
    /\ heap = <<>>
    /\ cache = <<>>
    /\ ret = 0
    /\ outcome = "none"
    /\ computed = 0
    /\ ncalls = 0
    /\ nwrites = 0
    /\ pc = <<"idle", "idle">>
    /\ dist = <<0, 0>>

\* The tensors a caller may hold, for a batch of n entries.  The prediction
\* tensor has the target's shape, or one entry (a shape that broadcasts).
InitTensors(n) ==
    /\ target \in Tensors(n, TargetVals)
    /\ preds \in Tensors(n, PredVals) \cup Tensors(1, PredVals)
    /\ cfg_weight \in {None} \cup {Some(w) : w \in Tensors(n, WeightVals) \cup Tensors(1, WeightVals)}
    /\ self_weight = cfg_weight
    /\ op = "none"
    /\ result = NoResult
    /\ used = NoCall
    /\ raised = FALSE

InitLoss ==
    \E n \in 1 .. MaxLen :
        /\ InitTensors(n)
        /\ sample_weights = None

InitMetrics ==
    \E n \in 1 .. MaxBatch :
        /\ InitTensors(n)
        /\ sample_weights \in {None} \cup {Some(w) : w \in Tensors(n, WeightVals)}

\* Between two calls the caller puts another label (or a missing one) into
\* its target tensor.
CallerSetsTarget ==
    /\ \E i \in DOMAIN target, x \in TargetVals : target' = [target EXCEPT ![i] = x]
    /\ op' = "none" /\ result' = NoResult /\ used' = NoCall
    /\ UNCHANGED <<preds, sample_weights, cfg_weight, self_weight, raised, gvars>>

BCELossIPU ==
    LET r == BCELossIPU_forward(preds, target, self_weight)
    IN  /\ op' = "BCELossIPU"
        /\ result' = r.result
        /\ used' = r.used
        /\ self_weight' = r.self_weight
        /\ raised' = (raised \/ r.result.kind = "raise")
        /\ preds' = r.preds
        /\ target' = r.target
        /\ UNCHANGED <<sample_weights, cfg_weight, gvars>>

MSELossIPU ==
    LET r == MSELossIPU_forward(preds, target)
    IN  /\ op' = "MSELossIPU"
        /\ result' = r.result
        /\ used' = r.used
        /\ preds' = r.preds
        /\ target' = r.target
        /\ UNCHANGED <<sample_weights, cfg_weight, self_weight, raised, gvars>>

L1LossIPU ==
    LET r == L1LossIPU_forward(preds, target)
    IN  /\ op' = "L1LossIPU"
        /\ result' = r.result
        /\ used' = r.used
        /\ preds' = r.preds
        /\ target' = r.target
        /\ UNCHANGED <<sample_weights, cfg_weight, self_weight, raised, gvars>>

auroc_ipu ==
    LET r == RankingMetricIPU(preds, target, sample_weights)
    IN  /\ op' = "auroc_ipu"
        /\ result' = r.result
        /\ used' = r.used
        /\ preds' = r.preds
        /\ target' = r.target
        /\ sample_weights' = r.sample_weights
        /\ UNCHANGED <<cfg_weight, self_weight, raised, gvars>>

average_precision_ipu ==
    LET r == RankingMetricIPU(preds, target, sample_weights)
    IN  /\ op' = "average_precision_ipu"
        /\ result' = r.result
        /\ used' = r.used
        /\ preds' = r.preds
        /\ target' = r.target
        /\ sample_weights' = r.sample_weights
        /\ UNCHANGED <<cfg_weight, self_weight, raised, gvars>>

precision_ipu ==
    LET r == ClassMetricIPU(preds, target)
    IN  /\ op' = "precision_ipu"
        /\ result' = r.result
        /\ used' = r.used
        /\ preds' = r.preds
        /\ target' = r.target
        /\ UNCHANGED <<sample_weights, cfg_weight, self_weight, raised, gvars>>

accuracy_ipu ==
    LET r == ClassMetricIPU(preds, target)
    IN  /\ op' = "accuracy_ipu"
        /\ result' = r.result
        /\ used' = r.used
        /\ preds' = r.preds
        /\ target' = r.target
        /\ UNCHANGED <<sample_weights, cfg_weight, self_weight, raised, gvars>>

recall_ipu ==
    LET r == ClassMetricIPU(preds, target)
    IN  /\ op' = "recall_ipu"
        /\ result' = r.result
        /\ used' = r.used
        /\ preds' = r.preds
        /\ target' = r.target
        /\ UNCHANGED <<sample_weights, cfg_weight, self_weight, raised, gvars>>

NextLoss ==
    \/ CallerSetsTarget
    \/ BCELossIPU
    \/ MSELossIPU
    \/ L1LossIPU

LossInit == InitLoss /\ IdleGraph

SpecLoss == LossInit /\ [][NextLoss]_vars

NextMetrics ==
    \/ BCELossIPU
    \/ MSELossIPU
    \/ L1LossIPU
    \/ auroc_ipu
    \/ average_precision_ipu
    \/ precision_ipu
    \/ accuracy_ipu
    \/ recall_ipu

MetricsInit == InitMetrics /\ IdleGraph

SpecMetrics == MetricsInit /\ [][NextMetrics]_vars

\* ------------------------------------------------------------------------
\* Properties of the distance engine
\* ------------------------------------------------------------------------
Populated == "graphormer" \in DOMAIN cache

\* The value held under the cache key.
CachedValue == IF Populated THEN ValueOf(cache["graphormer"]) ELSE <<>>

\* The graph is connected: no proper non-empty set of nodes is closed under
\* its edges.
IsConnected ==
    \A S \in SUBSET Nodes(num_nodes) :
        (S # {} /\ S # Nodes(num_nodes)) =>
            \E e \in edges : e \cap S # {} /\ e \ S # {}

Adjacent(i, j) == {i, j} \in edges

\* D is the matrix of hop distances of the graph: 0 exactly on the diagonal,
\* and off the diagonal one more than the least distance to a neighbour of
\* the target.
IsHopDistanceMatrix(D) ==
    /\ DOMAIN D = Nodes(num_nodes)
    /\ \A i \in Nodes(num_nodes) : DOMAIN D[i] = Nodes(num_nodes)
    /\ \A i \in Nodes(num_nodes), j \in Nodes(num_nodes) :
        /\ D[i][j] \in Nat
        /\ (D[i][j] = 0) <=> (i = j)
        /\ (i # j) =>
            /\ \E k \in Nodes(num_nodes) : Adjacent(k, j) /\ D[i][k] = D[i][j] - 1
            /\ \A k \in Nodes(num_nodes) : Adjacent(k, j) => D[i][k] >= D[i][j] - 1

\* C1 (as stated): over any sequence of calls sharing one cache, the
\* shortest-path computation runs at most once.
C1_ComputedAtMostOnce == computed <= 1

\* C1 (amended): once the cache holds the key, every later call returns the
\* cached matrix, leaves it and the cache unchanged and does not run the
\* computation; the computation completes, allocating and storing a matrix,
\* at most once per cache.  (A call that fails on a disconnected graph stores
\* nothing, so the computation runs again in the next call.)
C1_CachedIsReused ==
    /\ [](Len(heap) <= 1 /\ (Populated => computed = 1))
    /\ [][(Populated /\ ncalls' # ncalls) =>
            /\ ret' = cache["graphormer"]
            /\ outcome' = "ok"
            /\ cache' = cache
            /\ heap' = heap
            /\ computed' = computed]_vars

C1_Witness == ncalls >= 2 /\ outcome = "ok" /\ Populated /\ computed = 1 /\ ret = cache["graphormer"]

\* C4: a caller writing into the matrix a call returned does not change the
\* value held under the cache key.
C4_ReturnedNeverAliasesCache ==
    [][(Populated /\ nwrites' # nwrites) => CachedValue' = CachedValue]_vars

\* C7: when both racing callers have returned, they hold matrices of equal
\* value and the cache holds that value too.
C7_RaceIdempotent ==
    (pc[1] = "done" /\ pc[2] = "done") =>
        /\ Populated
        /\ ValueOf(dist[1]) = ValueOf(dist[2])
        /\ CachedValue = ValueOf(dist[1])

\* Both callers missed, both computed, one overwrote the other's entry.
C7_Witness ==
    /\ pc[1] = "done" /\ pc[2] = "done"
    /\ computed = 2 /\ dist[1] # dist[2]

\* C8: on a connected graph a call on an empty cache returns the matrix of
\* hop distances: num_nodes x num_nodes, symmetric, zero on the diagonal; on
\* the 4-node cycle dist(0,1) = 1, dist(0,2) = 2, dist(1,3) = 2.
C8_HopDistances ==
    (ncalls >= 1 /\ nwrites = 0 /\ IsConnected) =>
        /\ outcome = "ok"
        /\ LET D == ValueOf(ret)
           IN  /\ IsHopDistanceMatrix(D)
               /\ \A i \in Nodes(num_nodes), j \in Nodes(num_nodes) : D[i][j] = D[j][i]
               /\ \A i \in Nodes(num_nodes) : D[i][i] = 0
               /\ (num_nodes = 4 /\ edges = Cycle4) =>
                     (D[0][1] = 1 /\ D[0][2] = 2 /\ D[1][3] = 2)

C8_Witness ==
    /\ ncalls = 1 /\ nwrites = 0 /\ outcome = "ok"
    /\ num_nodes = 4 /\ edges = Cycle4
    /\ ValueOf(ret)[0][2] = 2

\* C9: on a graph with a pair of nodes that no path joins, every call on the
\* (empty) cache fails with the KeyError, stores nothing, and so the next
\* call runs the computation again.
C9_DisconnectedRaises ==
    (ncalls >= 1 /\ ~IsConnected) =>
        /\ outcome = "KeyError"
        /\ ~Populated
        /\ heap = <<>>
        /\ computed = ncalls

C9_Witness == ~IsConnected /\ ncalls = 2 /\ outcome = "KeyError" /\ computed = 2 /\ ~Populated

\* ------------------------------------------------------------------------
\* Properties of the losses and metrics
\* ------------------------------------------------------------------------
LossOps == {"BCELossIPU", "MSELossIPU", "L1LossIPU"}
WeightOps == {"BCELossIPU", "auroc_ipu", "average_precision_ipu"}

Missing(t) == {i \in DOMAIN t : t[i].nan}
Observed(t) == {i \in DOMAIN t : ~t[i].nan}

\* The tensor s without the entries at the positions where t is missing.
RECURSIVE Trim(_, _)
Trim(s, t) ==
    IF s = <<>> THEN <<>>
    ELSE (IF Head(t).nan THEN <<>> ELSE <<Head(s)>>) \o Trim(Tail(s), Tail(t))

\* The weight tensor a caller's optional weight w stands for, on a target of
\* n entries.
GivenWeight(w, n) == IF w = None THEN Ones(n) ELSE Expand(w[1], n)

\* The loss that the operation o wraps, unmasked.
Unmasked(o, p, t, w) ==
    CASE o = "MSELossIPU" -> MSELoss(p, t)
      [] o = "L1LossIPU" -> L1Loss(p, t)
      [] o = "BCELossIPU" -> BCELoss(p, t, w)

\* C2: for each of the three losses, when at least one target is observed,
\* the masked loss on the full tensors is the unmasked loss on the tensors
\* without the missing positions (and so the unmasked loss itself when
\* nothing is missing).
C2_MaskingIsExclusion ==
    (op \in LossOps /\ result.kind # "raise" /\ Observed(target) # {}) =>
        SameValue(result,
                  Unmasked(op, Trim(preds, target), Trim(target, target),
                           Trim(GivenWeight(self_weight, Len(target)), target)))

C2_Witness ==
    /\ op \in LossOps /\ result.kind = "num" /\ result.num > 0
    /\ Missing(target) # {} /\ Cardinality(Observed(target)) >= 2

\* C3: when every target is missing, each of the three losses raises or
\* returns NaN; it never returns a finite number.
C3_AllMissingIsNaN ==
    (op \in LossOps /\ Observed(target) = {}) => result.kind \in {"nan", "raise"}

C3_Witness ==
    /\ op \in LossOps /\ Observed(target) = {} /\ Len(target) >= 2
    /\ result.kind = "nan"

\* C5: no call changes a tensor of the caller: the predictions, the targets,
\* the sample_weights and the weight the loss was built with are after the
\* call what they were before it.
C5_CallerTensorsUntouched ==
    [][op' # "none" =>
        /\ preds' = preds
        /\ target' = target
        /\ sample_weights' = sample_weights
        /\ cfg_weight' = cfg_weight]_vars

\* C6: the weight tensor a call passes to the statistic it wraps is the
\* caller's weight (all ones when there is none) where the target is
\* observed, and 0 where the target is missing.
C6_WeightsZeroedWhereMissing ==
    [][(op' \in WeightOps /\ used' # NoCall) =>
        LET given == IF op' = "BCELossIPU" THEN self_weight ELSE sample_weights
            w == GivenWeight(given, Len(target))
        IN  used'[1].weight =
                Some([i \in DOMAIN target |-> IF target[i].nan THEN 0 ELSE w[i]])]_vars

C6_Witness ==
    /\ op \in {"auroc_ipu", "average_precision_ipu"} /\ used # NoCall
    /\ Missing(target) # {} /\ Observed(target) # {}
    /\ \E i \in DOMAIN target : used[1].weight[1][i] = 2

\* C10: as long as every BCELossIPU.forward call has returned, self.weight is
\* between calls the weight the module was built with (None if none),
\* whichever targets were missing in the calls so far.
C10_WeightRestored == ~raised => self_weight = cfg_weight

C10_Witness ==
    /\ op = "BCELossIPU" /\ result.kind = "num" /\ ~raised
    /\ cfg_weight # None /\ Missing(target) # {}
    /\ used[1].weight # cfg_weight

====
